---- MODULE Spec2Model ----
(***************************************************************************)
(* MaskedLanguageModeling.__call__ of transformers_lightning               *)
(* (language_modeling/masked_language_modeling.py) as a state machine.     *)
(*                                                                         *)
(* A batch holds one row of token ids.  Tensors live in a small heap `mem` *)
(* so that aliasing (the returned tensor IS the caller's tensor) and       *)
(* copying (labels = inputs.clone()) are distinguishable.  Probabilities   *)
(* and uniform draws are fixed-point numbers in 1/1000; standardized       *)
(* weights are fixed-point numbers in 1/100; the float NaN is a value of   *)
(* its own that every arithmetic step propagates.                          *)
(***************************************************************************)
EXTENDS Integers, Sequences, FiniteSets, TLC

\* longest row of token ids fed to the model
MaxLen == 2

\* label value of the positions that are not targets
IGNORE_IDX == -100

\* Python's None where an integer id is expected
None == -1

\* the float NaN
NaN == -9999

\* the tokenizer's vocabulary: one id per kind of token the code distinguishes
Tokens == [pad |-> 0, cls |-> 1, mask |-> 2, head |-> 3, tail |-> 4]

\* len(self.tokenizer)
VocabLen == Cardinality({Tokens.pad, Tokens.cls, Tokens.mask, Tokens.head, Tokens.tail})

Vocab == 0 .. (VocabLen - 1)

\* the values a uniform draw in [0, 1) takes, in 1/1000
Uniform == {0, 999}

\* the caller's tensor and the tensor allocated by clone()
CallerBuf == 1
CloneBuf == 2

VARIABLES
    self,                \* the MaskedLanguageModeling object: tokenizer and options
    mem,                 \* heap: buffer id -> row of integers
    original,            \* the caller's own copy of the input, taken before the call
    weights,             \* argument: [given, w]
    words_tails,         \* argument, rebound at line 91: [given, t]
    labels,              \* local: buffer id labels is bound to, 0 before line 78
    probability_matrix,  \* local
    masked_indices,      \* local
    indices_replaced,    \* local
    indices_random,      \* local
    pc,                  \* position in __call__
    raised,              \* the exception that ended the call, "none" otherwise
    ret,                 \* returned pair of buffer ids, << >> before the return
    rng,                 \* the global torch generator: [seed, pos]
    caller,              \* the calling code: the arguments it holds, the call before this one
    fn,                  \* the retrieval metric called: "hit_rate" or "average_precision"
    preds,               \* argument of the metric: one prediction per document
    target,              \* argument of the metric: one relevance flag per document
    top_k,               \* argument k of hit_rate
    device,              \* [preds, target]: where each tensor lives
    ranking,             \* torch.argsort(preds, descending=True), << >> before it runs
    metric_pc,           \* position in the metric
    result,              \* what the metric returned, as <<numerator, denominator>>
    data,                \* TransformersMapDataset.data
    stored,              \* the rows as __init__ stored them
    index,               \* argument idx of the last __getitem__
    row_dict             \* how the last __getitem__ ended: [kind, row]

mlmVars == <<self, mem, original, weights, words_tails, labels, probability_matrix,
             masked_indices, indices_replaced, indices_random, pc, raised, ret, rng, caller>>

metricVars == <<fn, preds, target, top_k, device, ranking, metric_pc, result>>

datasetVars == <<data, stored, index, row_dict>>

vars == <<mlmVars, metricVars, datasetVars>>

----------------------------------------------------------------------------
(* helpers *)

RECURSIVE Sum(_)
Sum(s) == IF s = << >> THEN 0 ELSE Head(s) + Sum(Tail(s))

Sign(x) == IF x < 0 THEN -1 ELSE IF x > 0 THEN 1 ELSE 0

RECURSIVE ISqrtFrom(_, _)
ISqrtFrom(k, r) == IF (r + 1) * (r + 1) > k THEN r ELSE ISqrtFrom(k, r + 1)

\* floor of the square root
ISqrt(k) == ISqrtFrom(k, 0)

\* rows of n ids torch.randint(len(tokenizer), ...) can draw
Rows(n) == [1 .. n -> Vocab]

\* rows of n ids a caller passes: encoded text, which holds no [MASK] yet
InputRows(n) == [1 .. n -> Vocab \ {Tokens.mask}]
BoolRows(n) == [1 .. n -> BOOLEAN]
DrawRows(n) == [1 .. n -> Uniform]

inputs == mem[CallerBuf]
N == Len(original)

----------------------------------------------------------------------------
(* the tokenizer capability *)

\* tokenizer.get_special_tokens_mask(val, already_has_special_tokens=True)
special_tokens_mask(val) == [i \in 1 .. Len(val) |-> val[i] \in self.tokenizer.special]

\* whole_word_tails_mask(inputs, tokenizer): True where the token's surface form
\* carries the continuation marker; the first token of a row is never a tail
whole_word_tails_mask(val) ==
    [i \in 1 .. Len(val) |-> i > 1 /\ val[i] = Tokens.tail]

----------------------------------------------------------------------------
(* the probability matrix, lines 81-87 *)

\* st.norm.ppf(1 - reliability / 2), in 1/1000
z_score(reliability) == IF reliability = 50 THEN 1960 ELSE 674

\* weights[labels]
Gather(w, val) == [i \in 1 .. Len(val) |-> w[val[i] + 1]]

\* utils.normalize_standard(v, dim=-1): (v - mean) / std, in 1/100
normalize_standard(v) ==
    LET n == Len(v)
        S == Sum(v)
        d == [i \in 1 .. n |-> n * v[i] - S]
        Q == Sum([i \in 1 .. n |-> d[i] * d[i]])
    IN  [i \in 1 .. n |->
            IF n < 2 \/ Q = 0
            THEN NaN
            ELSE Sign(d[i]) * ISqrt((d[i] * d[i] * (n - 1) * 10000) \div Q)]

\* torch.clip(x, min=0, max=1): NaN stays NaN
Clip(x) == IF x = NaN THEN NaN ELSE IF x < 0 THEN 0 ELSE IF x > 1000 THEN 1000 ELSE x

\* self.mlm_probability * (1 + s / z_score), before the clip
Perturbed(s) ==
    IF s = NaN THEN NaN
    ELSE self.mlm_probability
         + (self.mlm_probability * s * 10) \div z_score(self.reliability)

UnweightedMatrix(val) == [i \in 1 .. Len(val) |-> self.mlm_probability]

UnclippedMatrix(val) ==
    LET s == normalize_standard(Gather(weights.w, val))
    IN  [i \in 1 .. Len(val) |-> Perturbed(s[i])]

WeightedMatrix(val) == [i \in 1 .. Len(val) |-> Clip(UnclippedMatrix(val)[i])]

\* weights[labels] raises IndexError when an id has no entry in weights
WeightsIndexable(val) == \A i \in 1 .. Len(val) : val[i] + 1 <= Len(weights.w)

----------------------------------------------------------------------------
(* masked_fill_ and broadcasting *)

\* masked_fill_ that accepts a mask of any shape
BroadcastableAlways(m, n) == TRUE

\* a [1, m] mask can be broadcast to a [1, n] tensor
Broadcastable(m, n) == m = n \/ m = 1

\* the mask as masked_fill_ sees it on a row of n values
Broadcast(t, n) == [i \in 1 .. n |-> IF Len(t) = 1 THEN t[1] ELSE t[i]]

\* p.masked_fill_(mask, value=0.0)
masked_fill(p, mask) == [i \in 1 .. Len(p) |-> IF mask[i] THEN 0 ELSE p[i]]

\* line 95 left out
TailsFillSkipped(p, t) == p

TailsFill(p, t) == masked_fill(p, Broadcast(t, Len(p)))

\* line 100 left out
SpecialFillSkipped(p, val) == p

SpecialFill(p, val) == masked_fill(p, special_tokens_mask(val))

\* labels.eq(self.tokenizer.pad_token_id)
padding_mask(val) == [i \in 1 .. Len(val) |-> val[i] = self.tokenizer.pad_token_id]

PadFill(p, val) == masked_fill(p, padding_mask(val))

----------------------------------------------------------------------------
(* sampling and substitution *)

\* a Bernoulli trial that succeeds when the draw equals the probability
BernoulliAtMost(p, u) == [i \in 1 .. Len(p) |-> u[i] <= p[i]]

\* torch.bernoulli(p).bool() from the uniform draws u
Bernoulli(p, u) == [i \in 1 .. Len(p) |-> u[i] < p[i]]

\* labels[~masked_indices] = IGNORE_IDX
IgnoreUnmasked(lab, m) == [i \in 1 .. Len(lab) |-> IF m[i] THEN lab[i] ELSE IGNORE_IDX]

\* line 109 without `& masked_indices`
ReplacedAnywhere(u, m) == [i \in 1 .. Len(m) |-> u[i] < 800]

\* bernoulli(0.8) & masked_indices
Replaced(u, m) == [i \in 1 .. Len(m) |-> u[i] < 800 /\ m[i]]

\* lines 113-115 without `& ~indices_replaced`
RandomOverReplaced(u, m, r) == [i \in 1 .. Len(m) |-> u[i] < 500 /\ m[i]]

\* bernoulli(0.5) & masked_indices & ~indices_replaced
Random(u, m, r) == [i \in 1 .. Len(m) |-> u[i] < 500 /\ m[i] /\ ~r[i]]

\* x[idx] = value
Assign(x, idx, value) == [i \in 1 .. Len(x) |-> IF idx[i] THEN value[i] ELSE x[i]]

----------------------------------------------------------------------------
(* the states a call can start in *)

Tokenizers ==
    [mask_token_id : {None, Tokens.mask},
     pad_token_id  : {None, Tokens.pad},
     special       : {{Tokens.cls}}]

Options ==
    { [mlm_probability |-> 150,  reliability |-> 50,  whole_word_masking |-> FALSE],
      [mlm_probability |-> 150,  reliability |-> 50,  whole_word_masking |-> TRUE],
      [mlm_probability |-> 1000, reliability |-> 500, whole_word_masking |-> FALSE],
      [mlm_probability |-> 1000, reliability |-> 500, whole_word_masking |-> TRUE] }

NoTensor == [given |-> FALSE, w |-> << >>]
NoTails == [given |-> FALSE, t |-> << >>]

WeightArgs ==
    {NoTensor}
    \cup { [given |-> TRUE, w |-> w] :
               w \in { <<7, 7, 7, 7, 7>>, <<3, 0, 1, 2, 60>>, <<1, 2, 3>> } }

\* words_tails as callers supply it: the mask the detector computes (what the
\* tests pass), every position marked, none marked, a [1, 1] mask that
\* broadcasts, and a mask one position too long
TailsArgs(val) ==
    {NoTails}
    \cup { [given |-> TRUE, t |-> t] :
               t \in { whole_word_tails_mask(val),
                       [i \in 1 .. Len(val) |-> TRUE],
                       [i \in 1 .. Len(val) |-> FALSE],
                       <<TRUE>>,
                       [i \in 1 .. Len(val) + 1 |-> FALSE] } }

\* no metric is being computed
MetricIdle ==
    /\ fn = "none"
    /\ preds = << >>
    /\ target = << >>
    /\ top_k = 0
    /\ device = [preds |-> "cpu", target |-> "cpu"]
    /\ ranking = << >>
    /\ metric_pc = "idle"
    /\ result = << >>

\* no dataset was built
DatasetIdle ==
    /\ data = << >>
    /\ stored = << >>
    /\ index = 0
    /\ row_dict = [kind |-> "none", row |-> << >>]

\* the seeds of the tests' seed_everything(seed)
Seeds == {0, 1, 8}

\* what the caller remembers of a finished call
NoCall == [input |-> << >>, rng |-> [seed |-> None, pos |-> 0], raised |-> "none", out |-> << >>]

InitWith(seeds) ==
    /\ \E tk \in Tokenizers, o \in Options :
          self = [tokenizer |-> tk,
                  mlm_probability |-> o.mlm_probability,
                  reliability |-> o.reliability,
                  whole_word_masking |-> o.whole_word_masking]
    /\ \E n \in 1 .. MaxLen :
          /\ original \in InputRows(n)
          /\ words_tails \in TailsArgs(original)
    /\ mem = [b \in {CallerBuf, CloneBuf} |-> IF b = CallerBuf THEN original ELSE << >>]
    /\ weights \in WeightArgs
    /\ labels = 0
    /\ probability_matrix = << >>
    /\ masked_indices = << >>
    /\ indices_replaced = << >>
    /\ indices_random = << >>
    /\ pc = "check"
    /\ raised = "none"
    /\ ret = << >>
    /\ rng \in [seed : seeds, pos : {0}]
    /\ caller = [calls |-> 1, words_tails |-> words_tails, rng |-> rng, before |-> NoCall]
    /\ MetricIdle
    /\ DatasetIdle

\* a call under a generator nobody seeded
Init == InitWith({None})

\* a call made right after seed_everything(seed)
InitSeeded == InitWith(Seeds)

----------------------------------------------------------------------------
(* __call__, one action per statement *)

Raise(e) ==
    /\ pc' = "raised"
    /\ raised' = e

\* lines 72-75 left out
MaskTokenNeverChecked == FALSE

\* line 72
MaskTokenMissing == self.tokenizer.mask_token_id = None

\* lines 72-75
CheckMaskToken ==
    /\ pc = "check"
    /\ IF MaskTokenMissing
       THEN Raise("ValueError")
       ELSE pc' = "clone" /\ UNCHANGED raised
    /\ UNCHANGED <<metricVars, datasetVars, self, caller, mem, original, weights, words_tails, labels, probability_matrix,
                   masked_indices, indices_replaced, indices_random, ret, rng>>

\* labels = inputs, without the clone
CloneAliased == CallerBuf

\* the buffer `labels` is bound to by line 78
CloneTarget == CloneBuf

\* line 78: labels = inputs.clone()
Clone ==
    /\ pc = "clone"
    /\ labels' = CloneTarget
    /\ mem' = [mem EXCEPT ![CloneTarget] = inputs]
    /\ pc' = "probability"
    /\ UNCHANGED <<metricVars, datasetVars, self, caller, original, weights, words_tails, probability_matrix,
                   masked_indices, indices_replaced, indices_random, raised, ret, rng>>

\* lines 81-87
ProbabilityMatrix ==
    /\ pc = "probability"
    /\ IF ~weights.given
       THEN /\ probability_matrix' = UnweightedMatrix(mem[labels])
            /\ pc' = "tails"
            /\ UNCHANGED raised
       ELSE IF WeightsIndexable(mem[labels])
       THEN /\ probability_matrix' = WeightedMatrix(mem[labels])
            /\ pc' = "tails"
            /\ UNCHANGED raised
       ELSE /\ Raise("IndexError")
            /\ UNCHANGED probability_matrix
    /\ UNCHANGED <<metricVars, datasetVars, self, caller, mem, original, weights, words_tails, labels,
                   masked_indices, indices_replaced, indices_random, ret, rng>>

\* lines 90-91: the words_tails the rest of the call uses
TailsInUse ==
    IF ~words_tails.given /\ self.whole_word_masking
    THEN [given |-> TRUE, t |-> whole_word_tails_mask(inputs)]
    ELSE words_tails

\* lines 90-95
WholeWord ==
    /\ pc = "tails"
    /\ words_tails' = TailsInUse
    /\ IF ~self.whole_word_masking
       THEN /\ pc' = "special"
            /\ UNCHANGED <<probability_matrix, raised>>
       ELSE IF Broadcastable(Len(TailsInUse.t), Len(probability_matrix))
       THEN /\ probability_matrix' = TailsFill(probability_matrix, TailsInUse.t)
            /\ pc' = "special"
            /\ UNCHANGED raised
       ELSE /\ Raise("RuntimeError")
            /\ UNCHANGED probability_matrix
    /\ UNCHANGED <<metricVars, datasetVars, self, caller, mem, original, weights, labels,
                   masked_indices, indices_replaced, indices_random, ret, rng>>

\* lines 97-100
SpecialTokens ==
    /\ pc = "special"
    /\ probability_matrix' = SpecialFill(probability_matrix, mem[labels])
    /\ pc' = "padding"
    /\ UNCHANGED <<metricVars, datasetVars, self, caller, mem, original, weights, words_tails, labels,
                   masked_indices, indices_replaced, indices_random, raised, ret, rng>>

\* line 102
HasPadToken == self.tokenizer.pad_token_id # None

\* lines 102-104
Padding ==
    /\ pc = "padding"
    /\ probability_matrix' =
          IF HasPadToken THEN PadFill(probability_matrix, mem[labels])
          ELSE probability_matrix
    /\ pc' = "sample"
    /\ UNCHANGED <<metricVars, datasetVars, self, caller, mem, original, weights, words_tails, labels,
                   masked_indices, indices_replaced, indices_random, raised, ret, rng>>

\* torch.bernoulli rejects a probability that is not in [0, 1]
ValidProbabilities(p) == \A i \in 1 .. Len(p) : p[i] # NaN /\ 0 <= p[i] /\ p[i] <= 1000

Consume(k) == rng' = [rng EXCEPT !.pos = @ + k]

\* line 105, with the uniform draws u
Sample(u) ==
    /\ pc = "sample"
    /\ IF ValidProbabilities(probability_matrix)
       THEN /\ masked_indices' = Bernoulli(probability_matrix, u)
            /\ Consume(N)
            /\ pc' = "labels"
            /\ UNCHANGED raised
       ELSE /\ Raise("RuntimeError")
            /\ UNCHANGED <<masked_indices, rng>>
    /\ UNCHANGED <<metricVars, datasetVars, self, caller, mem, original, weights, words_tails, labels, probability_matrix,
                   indices_replaced, indices_random, ret>>

\* line 106
SetLabels ==
    /\ pc = "labels"
    /\ mem' = [mem EXCEPT ![labels] = IgnoreUnmasked(mem[labels], masked_indices)]
    /\ pc' = "replace"
    /\ UNCHANGED <<metricVars, datasetVars, self, caller, original, weights, words_tails, labels, probability_matrix,
                   masked_indices, indices_replaced, indices_random, raised, ret, rng>>

\* lines 109-110, with the uniform draws u
Replace(u) ==
    /\ pc = "replace"
    /\ indices_replaced' = Replaced(u, masked_indices)
    /\ mem' = [mem EXCEPT ![CallerBuf] =
                  Assign(inputs, Replaced(u, masked_indices),
                         [i \in 1 .. N |-> self.tokenizer.mask_token_id])]
    /\ Consume(N)
    /\ pc' = "random"
    /\ UNCHANGED <<metricVars, datasetVars, self, caller, original, weights, words_tails, labels, probability_matrix,
                   masked_indices, indices_random, raised, ret>>

\* lines 113-115, with the uniform draws u
RandomIndices(u) ==
    /\ pc = "random"
    /\ indices_random' = Random(u, masked_indices, indices_replaced)
    /\ Consume(N)
    /\ pc' = "words"
    /\ UNCHANGED <<metricVars, datasetVars, self, caller, mem, original, weights, words_tails, labels, probability_matrix,
                   masked_indices, indices_replaced, raised, ret>>

\* lines 116-122, with the words torch.randint draws: the substitution and the
\* return of (inputs, labels)
RandomWords(random_words) ==
    /\ pc = "words"
    /\ mem' = [mem EXCEPT ![CallerBuf] = Assign(inputs, indices_random, random_words)]
    /\ Consume(N)
    /\ ret' = <<CallerBuf, labels>>
    /\ pc' = "done"
    /\ UNCHANGED <<metricVars, datasetVars, self, caller, original, weights, words_tails, labels, probability_matrix,
                   masked_indices, indices_replaced, indices_random, raised>>

\* the draws of an unseeded generator: any values
SampleAny ==
    /\ pc = "sample"
    /\ \E u \in DrawRows(N) : Sample(u)

ReplaceAny ==
    /\ pc = "replace"
    /\ \E u \in DrawRows(N) : Replace(u)

RandomIndicesAny ==
    /\ pc = "random"
    /\ \E u \in DrawRows(N) : RandomIndices(u)

RandomWordsAny ==
    /\ pc = "words"
    /\ \E random_words \in Rows(N) : RandomWords(random_words)

Next ==
    \/ CheckMaskToken
    \/ Clone
    \/ ProbabilityMatrix
    \/ WholeWord
    \/ SpecialTokens
    \/ Padding
    \/ SampleAny
    \/ SetLabels
    \/ ReplaceAny
    \/ RandomIndicesAny
    \/ RandomWordsAny

Spec == Init /\ [][Next]_vars

\* line 122 was reached
Done == pc = "done"

\* the two tensors the call returned
corrupted == mem[ret[1]]
returned_labels == mem[ret[2]]

----------------------------------------------------------------------------
(* the seeded generator and a second invocation *)

\* the generator's output at a position of its stream: a function of the seed
Mix(seed, pos) == ((seed + 1) * 31 + pos * 17 + seed * pos * 7) % 53

\* the k uniform draws at the generator's position
GenUniform(g, k) ==
    [i \in 1 .. k |-> IF Mix(g.seed, g.pos + i - 1) % 2 = 0 THEN 0 ELSE 999]

\* the k ids torch.randint draws at the generator's position
GenWords(g, k) == [i \in 1 .. k |-> Mix(g.seed, g.pos + i - 1) % VocabLen]

SampleSeeded == Sample(GenUniform(rng, N))
ReplaceSeeded == Replace(GenUniform(rng, N))
RandomIndicesSeeded == RandomIndices(GenUniform(rng, N))

\* the random words taken from a source the seed does not reach
RandomWordsUnseeded == \E random_words \in Rows(N) : RandomWords(random_words)

RandomWordsSeeded == RandomWords(GenWords(rng, N))

\* the caller keeps the outcome of the call and calls again with the same
\* arguments: on its tensor as the call left it or restored from its copy, after
\* seeding the generator again with the same seed or without doing so
CallAgain(restore, reseed) ==
    /\ pc \in {"done", "raised"}
    /\ caller.calls = 1
    /\ rng' = IF reseed THEN [rng EXCEPT !.pos = 0] ELSE rng
    /\ caller' = [caller EXCEPT
                     !.calls = 2,
                     !.rng = rng',
                     !.before = [input |-> original,
                                 rng |-> caller.rng,
                                 raised |-> raised,
                                 out |-> IF pc = "done" THEN <<corrupted, returned_labels>>
                                         ELSE << >>]]
    /\ mem' = [b \in {CallerBuf, CloneBuf} |->
                  IF b = CloneBuf THEN << >>
                  ELSE IF restore THEN original ELSE inputs]
    /\ original' = mem'[CallerBuf]
    /\ words_tails' = caller.words_tails
    /\ labels' = 0
    /\ probability_matrix' = << >>
    /\ masked_indices' = << >>
    /\ indices_replaced' = << >>
    /\ indices_random' = << >>
    /\ pc' = "check"
    /\ raised' = "none"
    /\ ret' = << >>
    /\ UNCHANGED <<metricVars, datasetVars, self, weights>>

SecondCall == \E restore, reseed \in BOOLEAN : CallAgain(restore, reseed)

NextSeeded ==
    \/ CheckMaskToken
    \/ Clone
    \/ ProbabilityMatrix
    \/ WholeWord
    \/ SpecialTokens
    \/ Padding
    \/ SampleSeeded
    \/ SetLabels
    \/ ReplaceSeeded
    \/ RandomIndicesSeeded
    \/ RandomWordsSeeded
    \/ SecondCall

SpecSeeded == InitSeeded /\ [][NextSeeded]_vars

----------------------------------------------------------------------------
(* what the claims speak about *)

IsSpecial(id) == id \in self.tokenizer.special
IsPadding(id) == self.tokenizer.pad_token_id # None /\ id = self.tokenizer.pad_token_id

\* the positions the continuation mask in use marks, once line 91 has run
AfterTails == pc \in {"special", "padding", "sample", "labels", "replace", "random", "words", "done"}
AfterLabels == pc \in {"replace", "random", "words", "done"}
MarkedTail(i) == IF Len(words_tails.t) = 1 THEN words_tails.t[1] ELSE words_tails.t[i]

\* shapes as torch reports them
InputShape == <<1, N>>
WeightsShape == <<Len(weights.w)>>
TailsShape == <<1, Len(words_tails.t)>>

----------------------------------------------------------------------------
\* C1: reconstruction invariant.  When the call has returned, at every position
\* whose label is the ignore marker the corrupted input equals the original
\* input, and at every other position the label equals the original id.
C1_Reconstruction ==
    Done =>
        \A i \in 1 .. N :
            /\ returned_labels[i] = IGNORE_IDX => corrupted[i] = original[i]
            /\ returned_labels[i] # IGNORE_IDX => returned_labels[i] = original[i]

\* a returned call with a position that was replaced by [MASK] and one that is no target
C1_Witness ==
    /\ Done
    /\ \E i, j \in 1 .. N :
          /\ corrupted[i] # original[i]
          /\ returned_labels[i] = original[i]
          /\ returned_labels[j] = IGNORE_IDX

\* C2: structural exclusion.  No position holding a special token, and no position
\* holding the pad-token id of a tokenizer that defines one, is ever a target: it
\* is never sampled, its label is the ignore marker and its input is unchanged.
C2_StructuralExclusion ==
    \A i \in 1 .. N :
        (IsSpecial(original[i]) \/ IsPadding(original[i])) =>
            /\ pc \in {"labels", "replace", "random", "words", "done"} => ~masked_indices[i]
            /\ Done => returned_labels[i] = IGNORE_IDX /\ corrupted[i] = original[i]

\* a returned call at rate 1 on a row of structural tokens only, one of them padding
C2_Witness ==
    /\ Done
    /\ self.mlm_probability = 1000
    /\ \A i \in 1 .. N : IsSpecial(original[i]) \/ IsPadding(original[i])
    /\ \E i \in 1 .. N : IsPadding(original[i])
    /\ \E i \in 1 .. N : IsSpecial(original[i])
    /\ \A i \in 1 .. N : returned_labels[i] = IGNORE_IDX

C4_MaskTokenRequired ==
    self.tokenizer.mask_token_id = None =>
        /\ pc = "check" \/ (pc = "raised" /\ raised = "ValueError")
        /\ rng.pos = 0
        /\ inputs = original
        /\ labels = 0
        /\ ret = << >>

\* the ValueError raised on a call that passes weights and a continuation mask
C4_Witness ==
    /\ self.tokenizer.mask_token_id = None
    /\ pc = "raised"
    /\ raised = "ValueError"
    /\ weights.given
    /\ words_tails.given

\* C5: substitution policy.  The targets fall into three disjoint groups decided
\* in order: mask-replaced, then random-replaced among the targets not
\* mask-replaced, then the rest.  No other position is in a group.  On return the
\* input holds the mask id in the first group, an id of [0, len(tokenizer)) in the
\* second and the original id in the third.
C5_SubstitutionPolicy ==
    /\ pc = "random" => indices_random = << >>
    /\ pc \in {"words", "done"} =>
          \A i \in 1 .. N :
              /\ indices_replaced[i] => masked_indices[i]
              /\ indices_random[i] => masked_indices[i] /\ ~indices_replaced[i]
    /\ Done =>
          \A i \in 1 .. N :
              /\ indices_replaced[i] => corrupted[i] = self.tokenizer.mask_token_id
              /\ indices_random[i] => corrupted[i] \in 0 .. (VocabLen - 1)
              /\ (masked_indices[i] /\ ~indices_replaced[i] /\ ~indices_random[i])
                     => corrupted[i] = original[i]

\* a returned call with one position in each of two groups, the random one changed
C5_Witness ==
    /\ Done
    /\ \E i, j \in 1 .. N :
          /\ indices_replaced[i]
          /\ indices_random[j]
          /\ corrupted[j] # original[j]
          /\ corrupted[j] # self.tokenizer.mask_token_id

\* C6 as stated: a call given weights or a continuation mask whose shape differs
\* from the input's never returns and leaves the caller's tensor unchanged.
C6_ShapeMismatchFails ==
    ( \/ weights.given /\ WeightsShape # InputShape
      \/ words_tails.given /\ TailsShape # InputShape )
        => ~Done /\ inputs = original

\* C6 amended: in whole-word mode a supplied continuation mask that cannot be
\* broadcast to the input's shape stops the call at line 95 at the latest, and
\* weights without an entry for an id of the input stop it at line 86; every
\* call that raised left the caller's tensor unchanged and returned nothing.
C6_MismatchFailsBeforeMutation ==
    /\ (self.whole_word_masking /\ words_tails.given
            /\ Len(words_tails.t) # N /\ Len(words_tails.t) # 1)
          => pc \in {"check", "clone", "probability", "tails", "raised"}
    /\ (weights.given /\ \E i \in 1 .. N : original[i] >= Len(weights.w))
          => pc \in {"check", "clone", "probability", "raised"}
    /\ pc = "raised" => inputs = original /\ ret = << >>

\* the RuntimeError of masked_fill_ on a mask one position too long, after the
\* weights were accepted
C6_Witness ==
    /\ pc = "raised"
    /\ raised = "RuntimeError"
    /\ self.whole_word_masking
    /\ weights.given
    /\ words_tails.given
    /\ Len(words_tails.t) = N + 1
    /\ probability_matrix # << >>

\* C7 as documented on the class: in whole-word mode every token of a word is a
\* target or none is, so a continuation is a target exactly when the token
\* before it is.
C7_WholeWordAllOrNone ==
    (Done /\ self.whole_word_masking) =>
        \A i \in 2 .. N :
            MarkedTail(i) => (masked_indices[i] <=> masked_indices[i - 1])

\* C8: in-place mutation and aliasing.  labels is a buffer of its own from line 78
\* on; from line 106 on it holds the original id at the targets and the ignore
\* marker elsewhere, whatever is substituted into the input; the returned
\* corrupted tensor is the caller's tensor.
C8_AliasingAndCopy ==
    /\ labels # 0 => labels # CallerBuf
    /\ AfterLabels =>
          \A i \in 1 .. N :
              mem[labels][i] = IF masked_indices[i] THEN original[i] ELSE IGNORE_IDX
    /\ Done => ret[1] = CallerBuf /\ ret[2] = labels /\ inputs = corrupted

\* a returned call after which the caller's tensor differs from its old content
\* at a position whose label still holds the old id
C8_Witness ==
    /\ Done
    /\ \E i \in 1 .. N :
          /\ mem[CallerBuf][i] # original[i]
          /\ mem[ret[2]][i] = original[i]

C10_BoundedProbability ==
    (weights.given /\ pc \in {"tails", "special", "padding", "sample"}) =>
        \A i \in 1 .. N :
            /\ probability_matrix[i] # NaN
            /\ 0 <= probability_matrix[i]
            /\ probability_matrix[i] <= 1000

\* a position the eligibility filter of lines 93-104 leaves open
Eligible(i) ==
    /\ ~IsSpecial(original[i])
    /\ ~IsPadding(original[i])
    /\ ~(self.whole_word_masking /\ MarkedTail(i))

-----------------------------------------------------------------------------
\* metrics/functional/hit_rate.py and metrics/functional/average_precision.py:
\* retrieval metrics over the documents of a single query. Predictions are
\* kept in tenths and results as exact fractions <<numerator, denominator>>.

\* most documents in one query
MaxDocs == 3

\* the predictions of the docstrings, 0.2, 0.3 and 0.5, in tenths
Scores == {2, 3, 5}

Devices == {"cpu", "cuda"}

\* no MaskedLanguageModeling call is under way
MlmIdle ==
    /\ self = None
    /\ mem = [b \in {CallerBuf, CloneBuf} |-> << >>]
    /\ original = << >>
    /\ weights = NoTensor
    /\ words_tails = NoTails
    /\ labels = 0
    /\ probability_matrix = << >>
    /\ masked_indices = << >>
    /\ indices_replaced = << >>
    /\ indices_random = << >>
    /\ pc = "idle"
    /\ raised = "none"
    /\ ret = << >>
    /\ rng = [seed |-> None, pos |-> 0]
    /\ caller = [calls |-> 0, words_tails |-> NoTails, rng |-> rng, before |-> NoCall]

\* t.shape of a one-dimensional tensor
shape(t) == <<Len(t)>>

\* the condition under which both metrics refuse their arguments
Mismatch == shape(preds) # shape(target) \/ device.preds # device.target

\* t.sum() of a boolean tensor
Count(t) == Sum([i \in 1 .. Len(t) |-> IF t[i] THEN 1 ELSE 0])

Orderings(n) ==
    {order \in [1 .. n -> 1 .. n] : \A i, j \in 1 .. n : order[i] = order[j] => i = j}

Ascending(order, p) == \A r \in 1 .. Len(p) - 1 : p[order[r]] <= p[order[r + 1]]

Descending(order, p) == \A r \in 1 .. Len(p) - 1 : p[order[r]] >= p[order[r + 1]]

\* torch.argsort(p, dim=-1, descending=True): the sort is not stable, so equal
\* predictions come out in any order
argsort(p) == {order \in Orderings(Len(p)) : Descending(order, p)}

\* t[order], indexing a tensor by a tensor of indices
Reordered(t, order) == [r \in 1 .. Len(order) |-> t[order[r]]]

\* t[:n] for n >= 0
Prefix(t, n) == [r \in 1 .. (IF n < Len(t) THEN n ELSE Len(t)) |-> t[r]]

\* (relevant > 0).to(preds)
Positive(x) == IF x > 0 THEN <<1, 1>> ELSE <<0, 1>>

MetricArguments ==
    /\ \E n \in 0 .. MaxDocs : preds \in [1 .. n -> Scores]
    /\ \E n \in 0 .. MaxDocs : target \in BoolRows(n)
    /\ device \in [preds : Devices, target : Devices]

MetricInit ==
    /\ MlmIdle
    /\ DatasetIdle
    /\ MetricArguments
    /\ \/ fn = "hit_rate" /\ top_k \in 0 .. MaxDocs + 1
       \/ fn = "average_precision" /\ top_k = 0
    /\ ranking = << >>
    /\ metric_pc = "call"
    /\ result = << >>

MetricCheck(name) ==
    /\ fn = name
    /\ metric_pc = "call"
    /\ metric_pc' = IF Mismatch THEN "ValueError" ELSE "checked"
    /\ UNCHANGED <<mlmVars, datasetVars, fn, preds, target, top_k, device, ranking, result>>

HitRateCheck == MetricCheck("hit_rate")

HitRateRank ==
    /\ fn = "hit_rate"
    /\ metric_pc = "checked"
    /\ \E order \in argsort(preds) :
          /\ ranking' = order
          /\ LET relevant == Count(Prefix(Reordered(target, order), top_k))
             IN  result' = Positive(relevant)
    /\ metric_pc' = "returned"
    /\ UNCHANGED <<mlmVars, datasetVars, fn, preds, target, top_k, device>>

AveragePrecisionCheck == MetricCheck("average_precision")

\* torch.tensor([0]).to(preds)
AveragePrecisionNoTarget ==
    /\ fn = "average_precision"
    /\ metric_pc = "checked"
    /\ Count(target) = 0
    /\ result' = <<0, 1>>
    /\ metric_pc' = "returned"
    /\ UNCHANGED <<mlmVars, datasetVars, fn, preds, target, top_k, device, ranking>>

RECURSIVE Factorial(_)
Factorial(n) == IF n <= 1 THEN 1 ELSE n * Factorial(n - 1)

\* torch.arange(1, len(t) + 1)[t > 0]
Positions(t) == SelectSeq([r \in 1 .. Len(t) |-> r], LAMBDA r : t[r])

NumeratorsFromZero(positions) == [j \in 1 .. Len(positions) |-> j - 1]

\* torch.arange(len(positions)) + 1
Numerators(positions) == [j \in 1 .. Len(positions) |-> (j - 1) + 1]

\* torch.true_divide(a, b).mean(), every b[j] dividing unit
MeanOfQuotients(a, b, unit) ==
    <<Sum([j \in 1 .. Len(a) |-> a[j] * (unit \div b[j])]), unit * Len(a)>>

AveragePrecisionRank ==
    /\ fn = "average_precision"
    /\ metric_pc = "checked"
    /\ Count(target) # 0
    /\ \E order \in argsort(preds) :
          /\ ranking' = order
          /\ LET positions == Positions(Reordered(target, order))
             IN  result' = MeanOfQuotients(Numerators(positions), positions,
                                           Factorial(Len(target)))
    /\ metric_pc' = "returned"
    /\ UNCHANGED <<mlmVars, datasetVars, fn, preds, target, top_k, device>>

MetricNext ==
    \/ HitRateCheck
    \/ HitRateRank
    \/ AveragePrecisionCheck
    \/ AveragePrecisionNoTarget
    \/ AveragePrecisionRank

SpecMetrics == MetricInit /\ [][MetricNext]_vars

Documents == 1 .. Len(preds)

\* the documents predicted strictly higher than document i
Above(i) == {j \in Documents : preds[j] > preds[i]}

\* the other documents predicted at least as high as document i
NotBelow(i) == {j \in Documents \ {i} : preds[j] >= preds[i]}

\* C11: hit_rate on preds and target of one shape, on one device, returns 1 or
\* 0. It returns 1 whenever a relevant document is among the k highest
\* predictions however ties are ordered, it returns 1 only if a relevant
\* document is among the k highest predictions under some order of the ties,
\* and so it returns 0 when no target is true. On preds and target of different
\* shapes no value is returned: the call ends in ValueError.
C11_HitRate ==
    fn = "hit_rate" =>
        /\ shape(preds) # shape(target) => metric_pc \in {"call", "ValueError"}
        /\ (shape(preds) = shape(target) /\ device.preds = device.target) =>
              metric_pc # "ValueError"
        /\ metric_pc = "returned" =>
              /\ result \in {<<0, 1>>, <<1, 1>>}
              /\ (\E i \in Documents : target[i] /\ Cardinality(NotBelow(i)) < top_k) =>
                    result = <<1, 1>>
              /\ result = <<1, 1>> =>
                    \E i \in Documents : target[i] /\ Cardinality(Above(i)) < top_k
              /\ (\A i \in Documents : ~target[i]) => result = <<0, 1>>

\* a relevant document below the k highest predictions, an irrelevant one among them
C11_Witness ==
    /\ fn = "hit_rate" /\ metric_pc = "returned" /\ result = <<0, 1>>
    /\ top_k >= 1
    /\ \E i \in Documents : target[i] /\ Cardinality(Above(i)) >= top_k

\* the rank, counted from 1, the sort gave document d
Rank(d) == CHOOSE r \in Documents : ranking[r] = d

\* the relevant documents ranked at or above document d
RelevantAtOrAbove(d) == {e \in Documents : target[e] /\ Rank(e) <= Rank(d)}

\* the sum over the relevant documents d of |RelevantAtOrAbove(d)| / Rank(d),
\* in units of 1 / Factorial(number of documents)
PrecisionSum ==
    Sum([d \in Documents |->
            IF target[d]
            THEN Cardinality(RelevantAtOrAbove(d)) * (Factorial(Len(preds)) \div Rank(d))
            ELSE 0])

\* C12: average_precision on preds and target of one shape, on one device,
\* returns 0 when no target is true. Otherwise the documents are ranked by
\* descending prediction and the result is the mean over the relevant documents
\* of (relevant documents at or above that rank) / (that rank, from 1); preds
\* [0.2, 0.3, 0.5] with target [True, False, True] give (1/1 + 2/3)/2 = 5/6.
C12_AveragePrecision ==
    (fn = "average_precision" /\ metric_pc = "returned") =>
        /\ shape(preds) = shape(target)
        /\ Count(target) = 0 => result = <<0, 1>>
        /\ Count(target) # 0 =>
              /\ \A d, e \in Documents : preds[d] > preds[e] => Rank(d) < Rank(e)
              /\ result[2] > 0
              /\ result[1] * (Factorial(Len(preds)) * Count(target)) = PrecisionSum * result[2]
        /\ (preds = <<2, 3, 5>> /\ target = <<TRUE, FALSE, TRUE>>) =>
              result[1] * 6 = 5 * result[2]

\* the docstring's example has returned 5/6
C12_Witness ==
    /\ fn = "average_precision" /\ metric_pc = "returned"
    /\ preds = <<2, 3, 5>> /\ target = <<TRUE, FALSE, TRUE>>
    /\ ranking = <<3, 2, 1>>
    /\ result[1] * 6 = 5 * result[2]

-----------------------------------------------------------------------------
\* datasets/map_dataset.py: TransformersMapDataset, a dataset that reads the
\* whole adapter into a list and serves rows by position. Python indices count
\* from 0, the sequences here from 1.

\* most rows an adapter yields
MaxRows == 3

\* the rows an adapter yields
Lines == {"a", "b", "c"}

\* self.adapter.preprocess_line(row)
preprocess_line(row) == [line |-> row]

\* TransformersMapDataset(...): the rows of the adapter, stored in order
DatasetInit ==
    /\ MlmIdle
    /\ MetricIdle
    /\ \E n \in 0 .. MaxRows : data \in [1 .. n -> Lines]
    /\ stored = data
    /\ index = 0
    /\ row_dict = [kind |-> "none", row |-> << >>]

\* __len__
len == Len(data)

\* the indices a caller may pass: every range of __getitem__ at every length
Indices == -(MaxRows + 1) .. MaxRows + 1

BeyondOrAtLength(i) == -i >= len

\* -idx > len(self)
BeyondLength(i) == -i > len

\* idx as the assertion sees it
Normalized(i) == IF i < 0 THEN len + i ELSE i

GetItemEnds(i, kind, row) ==
    /\ index' = i
    /\ row_dict' = [kind |-> kind, row |-> row]
    /\ UNCHANGED <<mlmVars, metricVars, data, stored>>

GetItemValueError(i) ==
    /\ i < 0
    /\ BeyondLength(i)
    /\ GetItemEnds(i, "ValueError", << >>)

GetItemAssertionError(i) ==
    /\ ~(i < 0 /\ BeyondLength(i))
    /\ ~(0 <= Normalized(i) /\ Normalized(i) < len)
    /\ GetItemEnds(i, "AssertionError", << >>)

GetItemRow(i) ==
    /\ ~(i < 0 /\ BeyondLength(i))
    /\ 0 <= Normalized(i) /\ Normalized(i) < len
    /\ LET row == data[Normalized(i) + 1]
       IN  GetItemEnds(i, "row", preprocess_line(row))

GetItem ==
    \E i \in Indices :
        \/ GetItemValueError(i)
        \/ GetItemAssertionError(i)
        \/ GetItemRow(i)

SpecDataset == DatasetInit /\ [][GetItem]_vars

\* C13: on a dataset of n rows, __getitem__(idx) returns the preprocessed row
\* stored at idx when 0 <= idx < n and the one stored at n + idx when
\* -n <= idx < 0; it raises ValueError when idx < -n and fails the range
\* assertion when idx >= n. No call changes the stored rows, so __len__ is n
\* after any sequence of calls.
C13_GetItem ==
    LET n == Len(stored)
        Returns(j) == row_dict = [kind |-> "row", row |-> preprocess_line(stored[j + 1])]
    IN  /\ data = stored
        /\ len = n
        /\ row_dict.kind # "none" =>
              /\ (0 <= index /\ index < n) => Returns(index)
              /\ (-n <= index /\ index < 0) => Returns(n + index)
              /\ index < -n => row_dict.kind = "ValueError"
              /\ index >= n => row_dict.kind = "AssertionError"

\* the most negative index still in range has returned the first row
C13_Witness ==
    /\ Len(stored) >= 2
    /\ index = -Len(stored)
    /\ row_dict = [kind |-> "row", row |-> preprocess_line(stored[1])]
    /\ stored[1] # stored[Len(stored)]

====
